---------------------------- MODULE Spec2Model ----------------------------
(***************************************************************************)
(* Model of the FlutterBridge class (bridge.ts): a window "message"        *)
(* listener that captures a transferred MessagePort, a Set of subscriber   *)
(* callbacks fanned out from the port's onmessage handler, and the public  *)
(* operations sendMessage / subscribe / unsubscribe / getConnectionStatus  *)
(* / isConnected / disconnect.                                             *)
(*                                                                         *)
(* JavaScript is single threaded: every handler runs to completion, so     *)
(* every action below is one whole handler, including the callbacks it     *)
(* invokes synchronously.                                                  *)
(***************************************************************************)
EXTENDS Integers, Sequences, FiniteSets, TLC

(***************************************************************************)
(* Bounds of the model.                                                    *)
(***************************************************************************)
\* number of MessagePorts the host ever transfers to the page
MaxPorts == 2
\* number of sendMessage payloads posted, on all ports together, before the
\* model stops sending on a bound port
MaxSends == 1
\* number of unsubscribe closures callers keep per bridge
MaxHandles == 1
\* number of times the effect of one component using the hook runs
MaxEffects == 2

(***************************************************************************)
(* Values.                                                                 *)
(***************************************************************************)
\* the module-level instance and a caller-constructed one
Bridges == {"flutterBridge", "custom"}

Ports == 1..MaxPorts

\* this.port = null
NoPort == 0

\* port.onmessage = null
NoHandler == "null"

\* a deleted entry of a Set that is being iterated
Empty == "empty"

\* a value structured clone cannot copy (a function): postMessage throws
Uncloneable == "fn"

\* payloads callers pass to sendMessage
SendPayloads == {"ping", Uncloneable}

\* payloads the host posts on a port: opaque values, some of which the
\* caller's command callback acts on
InboundPayloads ==
  {"x", "throw", "subscribe", "unsubscribe", "resubscribe", "disconnect"}

\* payloads of window message events
WindowPayloads == {"capturePort", "init"}

\* caller-supplied callbacks, identified by reference
Callbacks == {"cbPlain", "cbCommand"}

\* what the caller's callback does when it is invoked with data: cbPlain
\* returns; cbCommand handles message types, as below, on the bridge that
\* invoked it
\*   throws      - throws
\*   subscribe   - calls subscribe(cbPlain)
\*   unsubscribe - calls the unsubscribe closure of cbPlain
\*   resubscribe - calls the unsubscribe closure of cbPlain, then
\*                 subscribe(cbPlain)
\*   disconnect  - calls disconnect()
\*   returns     - returns normally
Behaviour(cb, data) ==
  IF cb = "cbCommand"
  THEN CASE data = "throw" -> "throws"
         [] data = "subscribe" -> "subscribe"
         [] data = "unsubscribe" -> "unsubscribe"
         [] data = "resubscribe" -> "resubscribe"
         [] data = "disconnect" -> "disconnect"
         [] OTHER -> "returns"
  ELSE "returns"

Range(s) == {s[i] : i \in DOMAIN s}

\* the live entries of a Set's entry list, in insertion order
Compact(s) == SelectSeq(s, LAMBDA e : e # Empty)

(***************************************************************************)
(* Options: { debug: false, captureCommand: "capturePort",                 *)
(* confirmationMessage: "portReceived", ...options }                       *)
(***************************************************************************)
DefaultOptions ==
  [debug |-> FALSE, captureCommand |-> "capturePort",
   confirmationMessage |-> "portReceived"]

MergeOptions(o) ==
  [k \in DOMAIN DefaultOptions |-> IF k \in DOMAIN o THEN o[k] ELSE DefaultOptions[k]]

\* the options objects callers pass to the constructor
OptionChoices ==
  { [debug |-> FALSE],
    [debug |-> TRUE],
    [captureCommand |-> "init", confirmationMessage |-> "ready"] }

(***************************************************************************)
(* Diagnostics: log() prints only in debug mode, warn() always.            *)
(***************************************************************************)
log(o, tag) == IF o.debug THEN << <<"log", tag>> >> ELSE << >>

warn(tag) == << <<"warn", tag>> >>

VARIABLES
  hasWindow,    \* typeof window !== "undefined"
  listeners,    \* window "message" listeners, in registration order
  options,      \* this.options of each constructed bridge
  port,         \* this.port of each bridge
  subscribers,  \* this.subscribers of each bridge, in insertion order
  handles,      \* unsubscribe closures callers hold: the callback each removes
                \* and whether the closure was invoked before
  transferred,  \* number of ports the host has transferred so far
  onmessage,    \* port.onmessage: the bridge whose handleMessage is bound
  closed,       \* port.close() was called
  outbox,       \* messages posted on each port, in order
  hooks,        \* the state of each component that uses useFlutterBridge
  effects       \* how often the effect of each component has run

vars ==
  <<hasWindow, listeners, options, port, subscribers, handles, transferred,
    onmessage, closed, outbox, hooks, effects>>

Constructed == DOMAIN options

(***************************************************************************)
(* The methods of FlutterBridge, as functions of the page's state g:       *)
(*   g.port, g.subscribers  - the fields of every bridge                   *)
(*   g.listeners - the listeners registered on window                      *)
(*   g.onmessage, g.closed, g.outbox - the ports                           *)
(*   g.console - diagnostics printed so far by the running operation       *)
(*   g.threw   - an exception is propagating                               *)
(*   g.invoked - the callbacks invoked so far, with their argument         *)
(* console, threw and invoked are what the operation shows its caller;     *)
(* they are not kept when it has returned.                                 *)
(* While a Set is iterated, a deleted entry is left in place as Empty.     *)
(***************************************************************************)
Page ==
  [port |-> port, subscribers |-> subscribers, listeners |-> listeners,
   onmessage |-> onmessage, closed |-> closed, outbox |-> outbox, console |-> << >>,
   threw |-> FALSE, invoked |-> << >>]

Emit(g, lines) == [g EXCEPT !.console = @ \o lines]

\* MessagePort.postMessage: a value that cannot be cloned throws, a message
\* posted on a closed port is discarded
postMessage(g, p, data) ==
  IF data = Uncloneable THEN [g EXCEPT !.threw = TRUE]
  ELSE IF g.closed[p] THEN g
  ELSE [g EXCEPT !.outbox[p] = Append(@, data)]

\* an add that appends without looking for the value
SetAdd_duplicates(s, cb) == Append(s, cb)

\* Set.prototype.add
SetAdd(s, cb) == IF cb \in Range(s) THEN s ELSE Append(s, cb)

\* Set.prototype.delete
SetDelete(s, cb) == [i \in DOMAIN s |-> IF s[i] = cb THEN Empty ELSE s[i]]

\* Set.prototype.clear
SetClear(s) == [i \in DOMAIN s |-> Empty]

\* Set.prototype.size
SetSize(s) == Cardinality(Range(s) \ {Empty})

isConnected(b, g) == g.port[b] # NoPort

\* getConnectionStatus that counts the entries removed during an iteration
getConnectionStatus_countsRemoved(b, g) ==
  [hasPort |-> g.port[b] # NoPort, subscribersCount |-> Len(g.subscribers[b])]

getConnectionStatus(b, g) ==
  [hasPort |-> g.port[b] # NoPort, subscribersCount |-> SetSize(g.subscribers[b])]

\* capturePort that closes the port it held before binding the new one
capturePort_closesPrevious(b, g, event) ==
  LET o == options[b]
      g0 == Emit(g, log(o, "check"))
  IN IF event.data = o.captureCommand /\ Len(event.ports) > 0
     THEN LET p == event.ports[1]
              g1 == IF g0.port[b] # NoPort
                    THEN [g0 EXCEPT !.closed[g0.port[b]] = TRUE]
                    ELSE g0
              g2 == [g1 EXCEPT !.port[b] = p, !.onmessage[p] = b]
              g3 == postMessage(g2, p, o.confirmationMessage)
          IN IF g3.threw THEN g3 ELSE Emit(g3, log(o, "confirmed"))
     ELSE Emit(g0, log(o, "rejected"))

\* capturePort binding the last transferred port instead of the first
capturePort_lastPort(b, g, event) ==
  LET o == options[b]
      g0 == Emit(g, log(o, "check"))
  IN IF event.data = o.captureCommand /\ Len(event.ports) > 0
     THEN LET p == event.ports[Len(event.ports)]
              g1 == Emit(g0, log(o, "captured"))
              g2 == [g1 EXCEPT !.port[b] = p, !.onmessage[p] = b]
              g3 == postMessage(g2, p, o.confirmationMessage)
          IN IF g3.threw THEN g3 ELSE Emit(g3, log(o, "confirmed"))
     ELSE Emit(g0, log(o, "rejected"))

\* capturePort that does not compare the payload with captureCommand
capturePort_anyPayload(b, g, event) ==
  LET o == options[b]
      g0 == Emit(g, log(o, "check"))
  IN IF Len(event.ports) > 0
     THEN LET p == event.ports[1]
              g1 == Emit(g0, log(o, "captured"))
              g2 == [g1 EXCEPT !.port[b] = p, !.onmessage[p] = b]
              g3 == postMessage(g2, p, o.confirmationMessage)
          IN IF g3.threw THEN g3 ELSE Emit(g3, log(o, "confirmed"))
     ELSE Emit(g0, log(o, "rejected"))

capturePort(b, g, event) ==
  LET o == options[b]
      g0 == Emit(g, log(o, "check"))
  IN IF event.data = o.captureCommand /\ Len(event.ports) > 0
     THEN LET p == event.ports[1]
              g1 == Emit(g0, log(o, "captured"))
              g2 == [g1 EXCEPT !.port[b] = p, !.onmessage[p] = b]
              g3 == postMessage(g2, p, o.confirmationMessage)
          IN IF g3.threw THEN g3 ELSE Emit(g3, log(o, "confirmed"))
     ELSE Emit(g0, log(o, "rejected"))

\* sendMessage that posts the payload twice
sendMessage_postsTwice(b, g, data) ==
  LET o == options[b]
      g0 == Emit(g, log(o, "sending"))
  IN IF g0.port[b] # NoPort
     THEN postMessage(postMessage(Emit(g0, log(o, "send")), g0.port[b], data),
                      g0.port[b], data)
     ELSE Emit(g0, warn("not initialized"))

\* sendMessage that forgets the port when postMessage throws
sendMessage_dropsPort(b, g, data) ==
  LET o == options[b]
      g0 == Emit(g, log(o, "sending"))
  IN IF g0.port[b] # NoPort
     THEN LET g1 == postMessage(Emit(g0, log(o, "send")), g0.port[b], data)
          IN IF g1.threw THEN [g1 EXCEPT !.port[b] = NoPort] ELSE g1
     ELSE Emit(g0, warn("not initialized"))

\* sendMessage that throws when there is no port
sendMessage_throws(b, g, data) ==
  LET o == options[b]
      g0 == Emit(g, log(o, "sending"))
  IN IF g0.port[b] # NoPort
     THEN postMessage(Emit(g0, log(o, "send")), g0.port[b], data)
     ELSE [Emit(g0, warn("not initialized")) EXCEPT !.threw = TRUE]

sendMessage(b, g, data) ==
  LET o == options[b]
      g0 == Emit(g, log(o, "sending"))
  IN IF g0.port[b] # NoPort
     THEN postMessage(Emit(g0, log(o, "send")), g0.port[b], data)
     ELSE Emit(Emit(g0, warn("not initialized")),
                IF o.debug THEN warn("reasons") \o warn("reason 1")
                                \o warn("reason 2") \o warn("reason 3")
                ELSE << >>)

subscribe(b, g, cb) ==
  Emit([g EXCEPT !.subscribers[b] = SetAdd(@, cb)], log(options[b], "added"))

\* an unsubscribe closure that clears the registry
unsubscribe_clears(b, g, cb) ==
  Emit([g EXCEPT !.subscribers[b] = SetClear(@)], log(options[b], "removed"))

\* the closure subscribe(cb) returns
unsubscribe(b, g, cb) ==
  Emit([g EXCEPT !.subscribers[b] = SetDelete(@, cb)], log(options[b], "removed"))

\* disconnect that also removes the bridge's listeners from window
disconnect_removesListener(b, g) ==
  LET g1 == IF g.port[b] # NoPort
            THEN [g EXCEPT !.closed[g.port[b]] = TRUE, !.port[b] = NoPort]
            ELSE g
      g2 == [g1 EXCEPT !.listeners = SelectSeq(@, LAMBDA l : l.bridge # b)]
  IN Emit([g2 EXCEPT !.subscribers[b] = SetClear(@)], log(options[b], "disconnected"))

\* disconnect that closes the port and keeps the subscribers
disconnect_keepsSubscribers(b, g) ==
  LET g1 == IF g.port[b] # NoPort
            THEN [g EXCEPT !.closed[g.port[b]] = TRUE, !.port[b] = NoPort]
            ELSE g
  IN Emit(g1, log(options[b], "disconnected"))

disconnect(b, g) ==
  LET g1 == IF g.port[b] # NoPort
            THEN [g EXCEPT !.closed[g.port[b]] = TRUE, !.port[b] = NoPort]
            ELSE g
  IN Emit([g1 EXCEPT !.subscribers[b] = SetClear(@)], log(options[b], "disconnected"))

\* the caller's callback, invoked with the payload
callback(b, g, cb, data) ==
  CASE Behaviour(cb, data) = "returns" -> g
    [] Behaviour(cb, data) = "throws" -> [g EXCEPT !.threw = TRUE]
    [] Behaviour(cb, data) = "subscribe" -> subscribe(b, g, "cbPlain")
    [] Behaviour(cb, data) = "unsubscribe" -> unsubscribe(b, g, "cbPlain")
    [] Behaviour(cb, data) = "resubscribe" ->
         subscribe(b, unsubscribe(b, g, "cbPlain"), "cbPlain")
    [] Behaviour(cb, data) = "disconnect" -> disconnect(b, g)

\* Set.prototype.forEach from entry i on: entries appended during the
\* iteration are visited, entries deleted before their turn are not, and an
\* exception thrown by the callback ends the iteration
RECURSIVE forEach(_, _, _, _)
forEach(b, g, i, data) ==
  IF i > Len(g.subscribers[b]) THEN g
  ELSE LET cb == g.subscribers[b][i]
       IN IF cb = Empty THEN forEach(b, g, i + 1, data)
          ELSE LET g1 == callback(b, [g EXCEPT !.invoked = Append(@, <<cb, data>>)], cb, data)
               IN IF g1.threw THEN g1 ELSE forEach(b, g1, i + 1, data)

\* handleMessage that catches what a callback throws
handleMessage_catches(b, g, data) ==
  [forEach(b, Emit(g, log(options[b], "received")), 1, data) EXCEPT !.threw = FALSE]

\* handleMessage that skips the first subscriber
handleMessage_skipFirst(b, g, data) ==
  forEach(b, Emit(g, log(options[b], "received")), 2, data)

handleMessage(b, g, data) ==
  forEach(b, Emit(g, log(options[b], "received")), 1, data)

\* the second listener the constructor registers in debug mode
debugListener(b, g, event) == Emit(g, log(options[b], "window message"))

\* the fields and ports as the operation leaves them when it returns or
\* throws
State(g) ==
  [port |-> g.port,
   subscribers |-> [b \in DOMAIN g.subscribers |-> Compact(g.subscribers[b])],
   listeners |-> g.listeners, onmessage |-> g.onmessage, closed |-> g.closed,
   outbox |-> g.outbox]

\* the page on which the next operation runs
Resume(g) ==
  [port |-> g.port,
   subscribers |-> [b \in DOMAIN g.subscribers |-> Compact(g.subscribers[b])],
   listeners |-> g.listeners, onmessage |-> g.onmessage, closed |-> g.closed,
   outbox |-> g.outbox, console |-> << >>, threw |-> FALSE, invoked |-> << >>]

Commit(g) ==
  /\ port' = State(g).port
  /\ subscribers' = State(g).subscribers
  /\ listeners' = State(g).listeners
  /\ onmessage' = State(g).onmessage
  /\ closed' = State(g).closed
  /\ outbox' = State(g).outbox

(***************************************************************************)
(* useFlutterBridge: the state React keeps for a component that uses the   *)
(* hook, in the variant without the clear timer (useFlutterBridge.ts) and  *)
(* in the variant with it.                                                 *)
(*   bridge     - options.bridge, flutterBridge by default                 *)
(*   timer      - the component uses the variant with the clear timer      *)
(*   onMessage  - options.onMessage: none, a function with a stable        *)
(*                identity, or a function created inline by every render   *)
(*   closure    - the handleMessage that the last effect run subscribed    *)
(*   lastMessage - the useState value; of connectionStatus, the other      *)
(*                useState value, only the renders its setter causes are   *)
(*                kept                                                     *)
(*   ref        - clearMessageTimeoutRef.current: null, the id of a        *)
(*                pending timer (live), or of one that was cleared (dead)  *)
(*   pending    - the number of clear timers of the component that are set *)
(*   dirty      - a state setter was called and the render is still to run *)
(***************************************************************************)
Components == {"A", "B"}

\* the handleMessage closures: every effect run creates a new one
ClosureNames ==
  [A |-> <<"A.handleMessage.1", "A.handleMessage.2", "A.handleMessage.3",
           "A.handleMessage.4">>,
   B |-> <<"B.handleMessage.1", "B.handleMessage.2", "B.handleMessage.3",
           "B.handleMessage.4">>]

Closures(c) == Range(ClosureNames[c])

OnMessageChoices == {"none", "stable", "inline"}

Null == "null"

Unmounted ==
  [mounted |-> FALSE, bridge |-> "flutterBridge", timer |-> FALSE,
   onMessage |-> "none", closure |-> Null, lastMessage |-> Null,
   ref |-> Null, pending |-> 0, dirty |-> FALSE]

\* clearTimeout(clearMessageTimeoutRef.current), when the ref is not null
clearTimeout(hk) ==
  IF hk.ref = "live" THEN [hk EXCEPT !.ref = "dead", !.pending = @ - 1] ELSE hk

\* the handleMessage closure of the hook, invoked with a payload
hookHandleMessage(hk, data) ==
  LET h1 == IF hk.timer THEN clearTimeout(hk) ELSE hk
      h2 == [h1 EXCEPT !.lastMessage = data,
                       !.dirty = @ \/ h1.lastMessage # data]
  IN IF hk.timer THEN [h2 EXCEPT !.ref = "live", !.pending = @ + 1] ELSE h2

\* the payloads the closure passes to onMessage when it is invoked with
\* data: onMessage?.(message)
onMessageCalls(hk, data) == IF hk.onMessage # "none" THEN <<data>> ELSE << >>

\* the callback of the clear timer
clearMessage(hk) ==
  [hk EXCEPT !.lastMessage = Null, !.dirty = @ \/ hk.lastMessage # Null,
             !.ref = Null, !.pending = @ - 1]

\* what the cleanup of the effect does to the state of the hook; it runs
\* when the component unmounts and before every re-run of the effect
hookCleanup(hk) == IF hk.timer THEN clearTimeout(hk) ELSE hk

\* the component whose effect created closure cb
Owners(cb) == {c \in Components : cb \in Closures(c)}

\* the callbacks invoked, from entry i on, that are closures of mounted
\* components run their handleMessage
RECURSIVE NotifyFrom(_, _, _)
NotifyFrom(hs, invoked, i) ==
  IF i > Len(invoked) THEN hs
  ELSE LET cb == invoked[i][1]
           hs1 == [c \in Components |->
                     IF c \in Owners(cb) /\ hs[c].mounted
                     THEN hookHandleMessage(hs[c], invoked[i][2])
                     ELSE hs[c]]
       IN NotifyFrom(hs1, invoked, i + 1)

Notify(hs, invoked) == NotifyFrom(hs, invoked, 1)

\* an effect that subscribes without removing the closure of the run before
effectRerun_leaks(b, g, old, new) == subscribe(b, g, new)

\* the cleanup of the previous effect run, then the effect, on the bridge
effectRerun(b, g, old, new) == subscribe(b, Resume(unsubscribe(b, g, old)), new)

(***************************************************************************)
(* Construction.                                                           *)
(***************************************************************************)
\* the listeners the constructor registers on window
constructorListeners(b, o) ==
  << [kind |-> "capturePort", bridge |-> b] >>
  \o (IF o.debug THEN << [kind |-> "debug", bridge |-> b] >> ELSE << >>)

\* the page before any bridge is constructed
InitPage(w) ==
  /\ hasWindow = w
  /\ transferred = 0
  /\ onmessage = [p \in Ports |-> NoHandler]
  /\ closed = [p \in Ports |-> FALSE]
  /\ outbox = [p \in Ports |-> << >>]
  /\ hooks = [c \in Components |-> Unmounted]
  /\ effects = [c \in Components |-> 0]

\* a constructor that registers its listeners without testing for window
InitBridge_alwaysListens(b, opts) ==
  LET o == MergeOptions(opts)
  IN /\ options = (b :> o)
     /\ port = (b :> NoPort)
     /\ subscribers = (b :> << >>)
     /\ handles = (b :> {})
     /\ listeners = constructorListeners(b, o)

\* new FlutterBridge(opts) as the first bridge of the page
InitBridge(b, opts) ==
  LET o == MergeOptions(opts)
  IN /\ options = (b :> o)
     /\ port = (b :> NoPort)
     /\ subscribers = (b :> << >>)
     /\ handles = (b :> {})
     /\ listeners = IF hasWindow THEN constructorListeners(b, o) ELSE << >>

\* one bridge on the page, constructed with any of the options
Init ==
  \E w \in BOOLEAN, opts \in OptionChoices :
    /\ InitPage(w)
    /\ InitBridge("flutterBridge", opts)

\* new FlutterBridge(opts) while the page runs
Constructor(b, opts) ==
  LET o == MergeOptions(opts)
  IN /\ b \notin Constructed
     /\ options' = options @@ (b :> o)
     /\ port' = port @@ (b :> NoPort)
     /\ subscribers' = subscribers @@ (b :> << >>)
     /\ handles' = handles @@ (b :> {})
     /\ listeners' = IF hasWindow THEN listeners \o constructorListeners(b, o) ELSE listeners
     /\ UNCHANGED <<hasWindow, transferred, onmessage, closed, outbox, hooks, effects>>

(***************************************************************************)
(* Events.                                                                 *)
(***************************************************************************)
\* the window message event with which the host transfers n new ports
Event(data, n) == [data |-> data, ports |-> [i \in 1..n |-> transferred + i]]

\* the listeners ls registered on window when the event is dispatched run
\* in registration order, from listener i on; an exception of one is
\* reported and does not stop the others
RECURSIVE dispatchListeners(_, _, _, _)
dispatchListeners(g, ls, i, event) ==
  IF i > Len(ls) THEN g
  ELSE LET l == ls[i]
           g1 == IF l.kind = "capturePort" THEN capturePort(l.bridge, g, event)
                 ELSE debugListener(l.bridge, g, event)
       IN dispatchListeners([g1 EXCEPT !.threw = FALSE], ls, i + 1, event)

dispatchEvent(g, event) == dispatchListeners(g, g.listeners, 1, event)

\* a message event on port p reaches p.onmessage unless p was closed or has
\* no handler
Delivered(g, p) == ~g.closed[p] /\ g.onmessage[p] # NoHandler

portMessage(g, p, data) ==
  IF Delivered(g, p) THEN handleMessage(g.onmessage[p], g, data) ELSE g

\* the host posts data to the window and transfers n new ports with it
WindowMessage(data, n) ==
  /\ hasWindow
  /\ transferred + n <= MaxPorts
  /\ transferred' = transferred + n
  /\ Commit(dispatchEvent(Page, Event(data, n)))
  /\ UNCHANGED <<hasWindow, options, handles, hooks, effects>>

\* the host posts data on the other end of port p
PortMessage(p, data) ==
  /\ p \in 1..transferred
  /\ Commit(portMessage(Page, p, data))
  /\ hooks' = Notify(hooks, portMessage(Page, p, data).invoked)
  /\ UNCHANGED <<hasWindow, options, handles, transferred, effects>>

(***************************************************************************)
(* Public operations.                                                      *)
(***************************************************************************)
\* how many of the messages posted on the ports came from sendMessage
Sent ==
  Cardinality({<<p, i>> \in Ports \X (1..(MaxPorts + MaxSends)) :
                 i \in DOMAIN outbox[p] /\ outbox[p][i] \in SendPayloads})

SendMessage(b, data) ==
  /\ b \in Constructed
  /\ port[b] # NoPort => Sent < MaxSends
  /\ Commit(sendMessage(b, Page, data))
  /\ UNCHANGED <<hasWindow, options, handles, transferred, hooks, effects>>

\* the closures callers hold: each removes cb, and was invoked before (used)
\* or not
Fresh(cb) == [cb |-> cb, used |-> FALSE]

Used(cb) == [cb |-> cb, used |-> TRUE]

\* the caller keeps the returned closure, or drops it
Subscribe(b, cb, keep) ==
  /\ b \in Constructed
  /\ keep => Cardinality(handles[b]) < MaxHandles /\ Fresh(cb) \notin handles[b]
  /\ Commit(subscribe(b, Page, cb))
  /\ handles' = IF keep THEN [handles EXCEPT ![b] = @ \cup {Fresh(cb)}] ELSE handles
  /\ UNCHANGED <<hasWindow, options, transferred, hooks, effects>>

\* the caller invokes closure h that it holds
Unsubscribe(b, h) ==
  /\ b \in Constructed
  /\ h \in handles[b]
  /\ Commit(unsubscribe(b, Page, h.cb))
  /\ handles' = [handles EXCEPT ![b] = (@ \ {h}) \cup {Used(h.cb)}]
  /\ UNCHANGED <<hasWindow, options, transferred, hooks, effects>>

\* the queries assign nothing
GetConnectionStatus(b) ==
  /\ b \in Constructed
  /\ getConnectionStatus(b, Page) \in [hasPort : BOOLEAN, subscribersCount : Nat]
  /\ UNCHANGED vars

IsConnected(b) ==
  /\ b \in Constructed
  /\ isConnected(b, Page) \in BOOLEAN
  /\ UNCHANGED vars

Disconnect(b) ==
  /\ b \in Constructed
  /\ Commit(disconnect(b, Page))
  /\ UNCHANGED <<hasWindow, options, handles, transferred, hooks, effects>>

Handles == {Fresh(cb) : cb \in Callbacks} \cup {Used(cb) : cb \in Callbacks}

Next ==
  \/ \E data \in WindowPayloads, n \in 0..2 : WindowMessage(data, n)
  \/ \E p \in Ports, data \in InboundPayloads : PortMessage(p, data)
  \/ \E b \in Bridges, data \in SendPayloads : SendMessage(b, data)
  \/ \E b \in Bridges, cb \in Callbacks, keep \in BOOLEAN : Subscribe(b, cb, keep)
  \/ \E b \in Bridges, h \in Handles : Unsubscribe(b, h)
  \/ \E b \in Bridges : GetConnectionStatus(b)
  \/ \E b \in Bridges : IsConnected(b)
  \/ \E b \in Bridges : Disconnect(b)

Spec == Init /\ [][Next]_vars

(***************************************************************************)
(* Components that use the hook.  React runs the cleanup of an effect and  *)
(* the effect itself one after the other, in one task.                     *)
(***************************************************************************)
Mounted == {c \in Components : hooks[c].mounted}

\* the closure the next effect run of c creates
NextClosure(c) == ClosureNames[c][effects[c] + 1]

\* the first render of component c and its effect: subscribe(handleMessage)
Mount(c, b, timer, onMessage) ==
  /\ b \in Constructed
  /\ c \notin Mounted
  /\ effects[c] < MaxEffects
  /\ Commit(subscribe(b, Page, NextClosure(c)))
  /\ hooks' = [hooks EXCEPT ![c] =
                 [Unmounted EXCEPT !.mounted = TRUE, !.bridge = b, !.timer = timer,
                                   !.onMessage = onMessage,
                                   !.closure = NextClosure(c)]]
  /\ effects' = [effects EXCEPT ![c] = @ + 1]
  /\ UNCHANGED <<hasWindow, options, handles, transferred>>

\* the render after a state change; an onMessage created inline is a new
\* function, so the cleanup and the effect run again
Render(c) ==
  /\ c \in Mounted
  /\ hooks[c].dirty
  /\ IF hooks[c].onMessage = "inline"
     THEN /\ effects[c] < MaxEffects
          /\ Commit(effectRerun(hooks[c].bridge, Page, hooks[c].closure, NextClosure(c)))
          /\ hooks' = [hooks EXCEPT ![c] =
                         [hookCleanup(@) EXCEPT !.dirty = FALSE,
                                                !.closure = NextClosure(c)]]
          /\ effects' = [effects EXCEPT ![c] = @ + 1]
     ELSE /\ hooks' = [hooks EXCEPT ![c].dirty = FALSE]
          /\ UNCHANGED <<port, subscribers, listeners, onmessage, closed, outbox,
                         effects>>
  /\ UNCHANGED <<hasWindow, options, handles, transferred>>

\* the component unmounts: the cleanup runs and React drops the state
Unmount(c) ==
  /\ c \in Mounted
  /\ Commit(unsubscribe(hooks[c].bridge, Page, hooks[c].closure))
  /\ hooks' = [hooks EXCEPT ![c] = [Unmounted EXCEPT !.pending = hookCleanup(hooks[c]).pending]]
  /\ UNCHANGED <<hasWindow, options, handles, transferred, effects>>

\* a clear timer of c fires
TimerFire(c) ==
  /\ hooks[c].pending > 0
  /\ hooks' = [hooks EXCEPT ![c] = IF @.mounted THEN clearMessage(@)
                                    ELSE [@ EXCEPT !.pending = @ - 1]]
  /\ UNCHANGED <<hasWindow, listeners, options, port, subscribers, handles,
                 transferred, onmessage, closed, outbox, effects>>

\* the status interval of c fires: setConnectionStatus with a new object
Tick(c) ==
  /\ c \in Mounted
  /\ getConnectionStatus(hooks[c].bridge, Page).hasPort \in BOOLEAN
  /\ hooks' = [hooks EXCEPT ![c].dirty = TRUE]
  /\ UNCHANGED <<hasWindow, listeners, options, port, subscribers, handles,
                 transferred, onmessage, closed, outbox, effects>>

\* the page with flutterBridge and a window
InitHook ==
  /\ InitPage(TRUE)
  /\ InitBridge("flutterBridge", [debug |-> FALSE])

\* components mount, render and unmount while the host captures, sends
\* payloads and the application subscribes directly and disconnects
NextHook ==
  \/ \E timer \in BOOLEAN, onMessage \in OnMessageChoices :
       Mount("A", "flutterBridge", timer, onMessage)
  \/ Mount("B", "flutterBridge", FALSE, "stable")
  \/ \E c \in Components : Render(c)
  \/ \E c \in Components : Unmount(c)
  \/ \E c \in Components : TimerFire(c)
  \/ \E c \in Components : Tick(c)
  \/ WindowMessage("capturePort", 1)
  \/ \E p \in Ports : PortMessage(p, "x")
  \/ Subscribe("flutterBridge", "cbPlain", FALSE)
  \/ Disconnect("flutterBridge")

SpecHook == InitHook /\ [][NextHook]_vars

\* the clear timers fire and the renders run
SpecHookFair ==
  /\ SpecHook
  /\ \A c \in Components : WF_vars(TimerFire(c)) /\ WF_vars(Render(c))

(***************************************************************************)
(* The page with the module-level instance, flutterBridge =                *)
(* new FlutterBridge({ debug: false }), on which a caller constructs a     *)
(* second instance.                                                        *)
(***************************************************************************)
InitMulti ==
  \E w \in BOOLEAN :
    /\ InitPage(w)
    /\ InitBridge("flutterBridge", [debug |-> FALSE])

\* the operations of both bridges, with one port per window event and the
\* closures dropped
NextMulti ==
  \/ \E opts \in OptionChoices : Constructor("custom", opts)
  \/ \E data \in WindowPayloads : WindowMessage(data, 1)
  \/ \E p \in Ports, data \in {"x", "throw"} : PortMessage(p, data)
  \/ \E b \in Bridges, data \in SendPayloads : SendMessage(b, data)
  \/ \E b \in Bridges, cb \in Callbacks : Subscribe(b, cb, FALSE)
  \/ \E b \in Bridges : IsConnected(b)
  \/ \E b \in Bridges : Disconnect(b)

SpecMulti == InitMulti /\ [][NextMulti]_vars

(***************************************************************************)
(* Properties.  Each is stated of the method applied to the page as it is  *)
(* in a reachable state, for every input of the method.                    *)
(***************************************************************************)
\* the only bridge of the page
Alone(b) == Constructed = {b}

\* a window event with these values can be dispatched
Dispatchable(n) == hasWindow /\ transferred + n <= MaxPorts

\* the payloads and port counts of window events that capturePort of b
\* accepts
Qualifies(b, data, n) == data = options[b].captureCommand /\ n > 0

\* window events as the host can send them
EventInputs == WindowPayloads \X (0..2)

\* the state of b and of the ports as the running operation shows it
Status(b, g) == getConnectionStatus(b, Resume(g))

\* C1: with one bridge on the page, not connected, a window message event
\* whose payload equals captureCommand and that carries at least one port
\* leaves the bridge connected to the first transferred port, with
\* handleMessage of the bridge as that port's handler and the configured
\* confirmationMessage posted exactly once on that port and on no other;
\* the registry, the other ports and the listeners are as before.
C1_HandshakeCaptures ==
  \A b \in Constructed, n \in 1..2 :
    (Alone(b) /\ Dispatchable(n) /\ ~isConnected(b, Page)) =>
      LET event == Event(options[b].captureCommand, n)
          p == event.ports[1]
          g == dispatchEvent(Page, event)
      IN /\ isConnected(b, Resume(g))
         /\ Status(b, g).hasPort
         /\ State(g).port[b] = p
         /\ State(g).onmessage = [onmessage EXCEPT ![p] = b]
         /\ State(g).outbox = [outbox EXCEPT ![p] = <<options[b].confirmationMessage>>]
         /\ outbox[p] = << >>
         /\ State(g).closed = closed
         /\ State(g).subscribers = subscribers
         /\ State(g).listeners = listeners

\* a bridge with a callback registered has received two ports with its
\* capture command: it is bound to the first, has confirmed on it, and the
\* second is left alone
C1_Witness ==
  /\ Alone("flutterBridge") /\ transferred = 2
  /\ options["flutterBridge"].captureCommand = "init"
  /\ subscribers["flutterBridge"] = <<"cbCommand">>
  /\ port["flutterBridge"] = 1
  /\ isConnected("flutterBridge", Page)
  /\ onmessage[1] = "flutterBridge" /\ onmessage[2] = NoHandler
  /\ outbox[1] = <<"ready">> /\ outbox[2] = << >>
  /\ ~closed[1] /\ ~closed[2]

\* C2: with one bridge on the page, a window message event whose payload
\* differs from captureCommand, or that carries no port, changes nothing:
\* not the port, not the registry, not the handlers of the ports, and
\* nothing is posted.
C2_NonQualifyingIgnored ==
  \A b \in Constructed, in \in EventInputs :
    (Alone(b) /\ Dispatchable(in[2]) /\ ~Qualifies(b, in[1], in[2])) =>
      LET g == dispatchEvent(Page, Event(in[1], in[2]))
      IN /\ State(g) = State(Page)
         /\ Status(b, g) = getConnectionStatus(b, Page)
         /\ ~g.threw

\* a bridge with a subscriber was sent a port with a payload that is not
\* its capture command: the port has no handler, nothing was posted on it,
\* and the bridge is not connected; the next such event changes nothing
C2_Witness ==
  /\ Alone("flutterBridge") /\ transferred = 1 /\ Dispatchable(1)
  /\ port["flutterBridge"] = NoPort
  /\ onmessage[1] = NoHandler /\ outbox[1] = << >> /\ ~closed[1]
  /\ subscribers["flutterBridge"] # << >>
  /\ \E data \in WindowPayloads :
       /\ ~Qualifies("flutterBridge", data, 1)
       /\ State(dispatchEvent(Page, Event(data, 1))) = State(Page)

\* the callbacks registered with b
Registered(b) == Range(subscribers[b])

\* p is the active channel of b: bound, open, and handled by b
Active(b) ==
  /\ port[b] # NoPort
  /\ Delivered(Page, port[b])
  /\ onmessage[port[b]] = b

\* how often the running operation has invoked cb
Deliveries(g, cb) == Cardinality({i \in DOMAIN g.invoked : g.invoked[i][1] = cb})

\* the dispatch g of data invoked every callback registered with b once,
\* with data, and no other
ExactFanOut(b, g, data) ==
  /\ \A cb \in Callbacks : Deliveries(g, cb) = IF cb \in Registered(b) THEN 1 ELSE 0
  /\ \A i \in DOMAIN g.invoked : g.invoked[i][2] = data
  /\ Len(g.invoked) = getConnectionStatus(b, Page).subscribersCount

\* no callback invoked in the dispatch g threw or called back into the
\* bridge
Quiet(g) ==
  \A i \in DOMAIN g.invoked : Behaviour(g.invoked[i][1], g.invoked[i][2]) = "returns"

\* no callback registered with b calls subscribe or an unsubscribe closure
\* when it is given data: every such call was made before the payload
\* arrived
CallsMadeBefore(b, data) ==
  \A cb \in Registered(b) :
    Behaviour(cb, data) \notin {"subscribe", "unsubscribe", "resubscribe"}

C4_SendWithoutPort ==
  \A b \in Constructed, data \in SendPayloads :
    ~isConnected(b, Page) =>
      LET g == sendMessage(b, Page, data)
      IN /\ ~g.threw
         /\ State(g) = State(Page)
         /\ g.outbox = outbox
         /\ g.port[b] = NoPort
         /\ <<"warn", "not initialized">> \in Range(g.console)

\* a bridge that was connected and has disconnected, with a callback
\* registered again, is asked to send a value that cannot be cloned
C4_Witness ==
  /\ port["flutterBridge"] = NoPort
  /\ closed[1]
  /\ subscribers["flutterBridge"] # << >>
  /\ ~sendMessage("flutterBridge", Page, Uncloneable).threw
  /\ sendMessage("flutterBridge", Page, Uncloneable).console # << >>

\* C5: disconnect() in any reachable state, also when a callback calls it
\* during a dispatch, leaves isConnected() false and getConnectionStatus()
\* {hasPort: false, subscribersCount: 0}, with the port that was bound
\* closed; sendMessage after it posts nothing and does not throw.
C5_AfterDisconnect ==
  \A b \in Constructed :
    LET g == disconnect(b, Page)
    IN /\ ~isConnected(b, Resume(g))
       /\ Status(b, g) = [hasPort |-> FALSE, subscribersCount |-> 0]
       /\ isConnected(b, Page) => State(g).closed[port[b]]
       /\ ~g.threw
       /\ \A data \in SendPayloads :
            /\ ~sendMessage(b, Resume(g), data).threw
            /\ sendMessage(b, Resume(g), data).outbox = outbox
       /\ (Active(b) /\ "cbCommand" \in Registered(b)) =>
            LET d == portMessage(Page, port[b], "disconnect")
            IN /\ Status(b, d) = [hasPort |-> FALSE, subscribersCount |-> 0]
               /\ State(d).closed[port[b]]

\* a bridge that was connected to port 1 has disconnected while a caller
\* held an unsubscribe closure it never invoked: the port is closed, the
\* registry is empty, and a send does not throw
C5_Witness ==
  /\ port["flutterBridge"] = NoPort
  /\ closed[1]
  /\ "ping" \in Range(outbox[1])
  /\ subscribers["flutterBridge"] = << >>
  /\ \E h \in handles["flutterBridge"] : ~h.used
  /\ ~sendMessage("flutterBridge", Page, "ping").threw

\* the registry of b without cb
Without(b, cb) == SelectSeq(subscribers[b], LAMBDA e : e # cb)

\* C6 as stated: invoking an unsubscribe closure that was invoked before
\* changes nothing and does not throw, whatever ran in between.
C6_SecondUnsubscribeNoEffect ==
  \A b \in Constructed : \A h \in handles[b] :
    h.used =>
      LET g == unsubscribe(b, Page, h.cb)
      IN ~g.threw /\ State(g) = State(Page)

\* C6: invoking an unsubscribe closure that was invoked before does not
\* throw and changes nothing, also after disconnect(), unless its callback
\* was subscribed again since and is still registered: then the call removes
\* that callback, and nothing else.
C6_SecondUnsubscribeRemovesOnlyItsCallback ==
  \A b \in Constructed :
    /\ \A h \in handles[b] :
         h.used =>
           LET g == unsubscribe(b, Page, h.cb)
           IN /\ ~g.threw
              /\ h.cb \notin Registered(b) => State(g) = State(Page)
              /\ State(g) = [State(Page) EXCEPT !.subscribers[b] = Without(b, h.cb)]
    /\ \A cb \in Callbacks :
         LET u1 == unsubscribe(b, Page, cb)
             u2 == unsubscribe(b, Resume(u1), cb)
             d == disconnect(b, Resume(u1))
             u3 == unsubscribe(b, Resume(d), cb)
         IN /\ ~u2.threw /\ State(u2) = State(u1)
            /\ ~u3.threw /\ State(u3) = State(d)

\* a closure was invoked, and its callback is no longer registered while
\* another callback is: invoking the closure again leaves the other
C6_Witness ==
  /\ Used("cbPlain") \in handles["flutterBridge"]
  /\ subscribers["flutterBridge"] = <<"cbCommand">>
  /\ closed[1]
  /\ State(unsubscribe("flutterBridge", Page, "cbPlain")).subscribers["flutterBridge"]
       = <<"cbCommand">>

\* no callback is in a registry twice
SingleMembership ==
  \A b \in Constructed :
    \A i, j \in DOMAIN subscribers[b] : subscribers[b][i] = subscribers[b][j] => i = j

\* subscribe(cb) where cb may be registered already: one membership, the
\* count grows by at most one, a second subscribe(cb) changes nothing, and
\* either closure removes cb
SubscribeOnce(b, cb) ==
  LET g1 == subscribe(b, Page, cb)
      g2 == subscribe(b, Resume(g1), cb)
      u == unsubscribe(b, Resume(g2), cb)
  IN /\ Cardinality({i \in DOMAIN State(g2).subscribers[b] : State(g2).subscribers[b][i] = cb}) = 1
     /\ State(g2) = State(g1)
     /\ Status(b, g1).subscribersCount <= getConnectionStatus(b, Page).subscribersCount + 1
     /\ Status(b, g1).subscribersCount
          = getConnectionStatus(b, Page).subscribersCount + (IF cb \in Registered(b) THEN 0 ELSE 1)
     /\ State(u).subscribers[b] = Without(b, cb)
     /\ ~g1.threw /\ ~g2.threw /\ ~u.threw

DisconnectCalled(b, data) ==
  \E cb \in Registered(b) : Behaviour(cb, data) = "disconnect"

\* C8: in every step, a bridge goes from not connected to connected only
\* while a window event that its capturePort accepts is processed, and from
\* connected to not connected only in disconnect(), called by the caller or
\* by a callback during a dispatch on the bridge's port; no other operation
\* changes isConnected().
C8_ConnectionChangesOnlyByCaptureOrDisconnect ==
  [][\A b \in Constructed :
       /\ (~isConnected(b, Page) /\ isConnected(b, Page)') =>
            \E in \in EventInputs :
              WindowMessage(in[1], in[2]) /\ Qualifies(b, in[1], in[2])
       /\ (isConnected(b, Page) /\ ~isConnected(b, Page)') =>
            \/ Disconnect(b)
            \/ \E data \in InboundPayloads :
                 /\ PortMessage(port[b], data)
                 /\ Active(b)
                 /\ DisconnectCalled(b, data)]_vars

\* a bridge that was connected to port 1 and disconnected is connected to
\* port 2, after a message was sent on it
C8_Witness ==
  /\ closed[1]
  /\ port["flutterBridge"] = 2
  /\ "ping" \in Range(outbox[2])
  /\ subscribers["flutterBridge"] # << >>

\* the window event e, accepted by capturePort of b, binds b to the first
\* port of e and confirms once on it, on the page g
Recaptured(b, g, e) ==
  LET r == dispatchEvent(g, e)
      p == e.ports[1]
  IN /\ isConnected(b, Resume(r))
     /\ State(r).port[b] = p
     /\ State(r).onmessage[p] = b
     /\ State(r).outbox = [g.outbox EXCEPT ![p] = <<options[b].confirmationMessage>>]
     /\ g.outbox[p] = << >>
     /\ State(r).subscribers = State(g).subscribers

\* no operation but subscribe puts a callback into the empty registry of b
StaysEmpty(b) ==
  /\ \A in \in EventInputs :
       Dispatchable(in[2]) =>
         State(dispatchEvent(Page, Event(in[1], in[2]))).subscribers[b] = << >>
  /\ \A p \in 1..transferred, data \in InboundPayloads :
       State(portMessage(Page, p, data)).subscribers[b] = << >>
  /\ \A data \in SendPayloads : State(sendMessage(b, Page, data)).subscribers[b] = << >>
  /\ \A cb \in Callbacks : State(unsubscribe(b, Page, cb)).subscribers[b] = << >>
  /\ State(disconnect(b, Page)).subscribers[b] = << >>

\* C10: disconnect() leaves the capture listener registered, so with one
\* bridge on the page a window event that capturePort accepts, processed
\* after disconnect() - at once or later, after any earlier captures and
\* disconnects - connects the bridge again to the first port of the event
\* and posts confirmationMessage exactly once on it; the registry, emptied
\* by disconnect(), stays empty until subscribe is called.
C10_RecaptureAfterDisconnect ==
  \A b \in Constructed :
    LET d == disconnect(b, Page)
    IN /\ State(d).listeners = listeners
       /\ hasWindow => [kind |-> "capturePort", bridge |-> b] \in Range(listeners)
       /\ State(d).subscribers[b] = << >>
       /\ subscribers[b] = << >> => StaysEmpty(b)
       /\ \A n \in 1..2 :
            (Alone(b) /\ Dispatchable(n)) =>
              /\ Recaptured(b, Resume(d), Event(options[b].captureCommand, n))
              /\ (~isConnected(b, Page) /\ \E q \in Ports : closed[q]) =>
                   Recaptured(b, Page, Event(options[b].captureCommand, n))

\* a bridge that disconnected from port 1 is connected to port 2 and has
\* confirmed on it, and its registry is still empty
C10_Witness ==
  /\ closed[1]
  /\ port["flutterBridge"] = 2
  /\ outbox[2] = <<options["flutterBridge"].confirmationMessage>>
  /\ subscribers["flutterBridge"] = << >>
  /\ \E h \in handles["flutterBridge"] : h.used

\* the messages on port p that are the confirmation of some bridge
Confirmations(p) ==
  {i \in DOMAIN outbox[p] :
     \E b \in Constructed : outbox[p][i] = options[b].confirmationMessage}

\* C9: with two bridges on the page, no port is bound to both, a port on
\* which a capture was confirmed carries exactly one confirmation, and a
\* payload that arrives on the port of a connected bridge is delivered to
\* every callback registered with that bridge.
C9_EndpointPrivateToOneBridge ==
  /\ \A b1, b2 \in Constructed :
       (b1 # b2 /\ isConnected(b1, Page)) => port[b1] # port[b2]
  /\ \A p \in 1..transferred : Cardinality(Confirmations(p)) <= 1
  /\ \A b \in Constructed :
       isConnected(b, Page) =>
         \A cb \in Registered(b) :
           Deliveries(portMessage(Page, port[b], "x"), cb) = 1

\* what the queries of b return agrees with the fields of b on the page g
\* of a running or returned operation
QueriesAgree(b, g) ==
  /\ getConnectionStatus(b, g).hasPort = isConnected(b, g)
  /\ isConnected(b, g) = (g.port[b] # NoPort)
  /\ getConnectionStatus(b, g).subscribersCount
       = Cardinality(Range(State(g).subscribers[b]))

\* C11: in every reachable state, and in the state a callback sees during a
\* dispatch, getConnectionStatus().hasPort equals isConnected() and
\* subscribersCount is the number of distinct registered callbacks; a step
\* that is one of the two queries changes no variable.
C11_QueriesConsistentAndPure ==
  /\ [](\A b \in Constructed :
          /\ QueriesAgree(b, Page)
          /\ \A p \in 1..transferred, data \in InboundPayloads :
               QueriesAgree(b, portMessage(Page, p, data)))
  /\ [][\A b \in Constructed :
          (GetConnectionStatus(b) \/ IsConnected(b)) =>
            (port' = port /\ subscribers' = subscribers /\ outbox' = outbox
             /\ closed' = closed /\ onmessage' = onmessage)]_vars

\* a connected bridge with two callbacks registered, one of which removes
\* the other when it is given the payload "unsubscribe"
C11_Witness ==
  /\ Active("flutterBridge")
  /\ subscribers["flutterBridge"] = <<"cbCommand", "cbPlain">>
  /\ getConnectionStatus("flutterBridge", Page)
       = [hasPort |-> TRUE, subscribersCount |-> 2]
  /\ getConnectionStatus("flutterBridge",
                         portMessage(Page, port["flutterBridge"], "unsubscribe"))
       = [hasPort |-> TRUE, subscribersCount |-> 1]

\* C12: a bridge constructed where window is undefined has no listener and
\* is never connected: in every state that follows isConnected() is false
\* and nothing was posted on any port; sendMessage posts nothing, and
\* subscribe, the unsubscribe closures and disconnect() change the registry
\* as they do elsewhere, and none of them throws.
C12_NoWindowNeverConnected ==
  ~hasWindow =>
    /\ listeners = << >>
    /\ transferred = 0
    /\ \A p \in Ports : outbox[p] = << >> /\ onmessage[p] = NoHandler
    /\ \A b \in Constructed :
         /\ ~isConnected(b, Page)
         /\ ~getConnectionStatus(b, Page).hasPort
         /\ \A data \in SendPayloads :
              /\ ~sendMessage(b, Page, data).threw
              /\ State(sendMessage(b, Page, data)) = State(Page)
         /\ \A cb \in Callbacks :
              /\ ~subscribe(b, Page, cb).threw
              /\ Range(State(subscribe(b, Page, cb)).subscribers[b])
                   = Registered(b) \cup {cb}
              /\ ~isConnected(b, Resume(subscribe(b, Page, cb)))
              /\ ~unsubscribe(b, Page, cb).threw
              /\ State(unsubscribe(b, Page, cb)).subscribers[b] = Without(b, cb)
              /\ ~isConnected(b, Resume(unsubscribe(b, Page, cb)))
         /\ ~disconnect(b, Page).threw
         /\ State(disconnect(b, Page)).subscribers[b] = << >>
         /\ State(disconnect(b, Page)).closed = closed
         /\ ~isConnected(b, Resume(disconnect(b, Page)))

\* without window, callbacks were subscribed and one was removed again
\* through its closure
C12_Witness ==
  /\ ~hasWindow
  /\ subscribers["flutterBridge"] = <<"cbCommand">>
  /\ Used("cbPlain") \in handles["flutterBridge"]
  /\ ~isConnected("flutterBridge", Page)

\* the ports a bridge has captured
Captured == {p \in Ports : onmessage[p] # NoHandler}

\* what is on every port: nothing if it was never captured, otherwise the
\* confirmation of the bridge that captured it and then sendMessage payloads
OutboxShape ==
  \A p \in Ports :
    IF p \in Captured
    THEN /\ outbox[p] # << >>
         /\ outbox[p][1] = options[onmessage[p]].confirmationMessage
         /\ \A i \in 2..Len(outbox[p]) : outbox[p][i] \in SendPayloads
    ELSE outbox[p] = << >>

\* a step changes what is on the ports only by appending data to the port
\* bound to the bridge whose sendMessage(data) is called, or by putting the
\* confirmation on the first port of a window event that capturePort accepts
OutboxChangesOnlyBySendOrCapture ==
  outbox' # outbox =>
    \/ \E b \in Constructed, data \in SendPayloads :
         /\ SendMessage(b, data)
         /\ isConnected(b, Page)
         /\ outbox' = [outbox EXCEPT ![port[b]] = Append(@, data)]
    \/ \E b \in Constructed, in \in EventInputs :
         /\ WindowMessage(in[1], in[2])
         /\ Qualifies(b, in[1], in[2])
         /\ outbox' = [outbox EXCEPT ![transferred + 1] =
                                       <<options[b].confirmationMessage>>]

\* sendMessage(data) on a connected bridge appends data to the port bound
\* at the time of the call, and to no other
Transmitted(b, data) ==
  /\ ~sendMessage(b, Page, data).threw
  /\ State(sendMessage(b, Page, data)).outbox
       = [outbox EXCEPT ![port[b]] = Append(@, data)]

C14_DoubleCaptureRebinds ==
  /\ \A b \in Constructed : port[b] \in Ports \cup {NoPort}
  /\ \A b \in Constructed, n \in 1..2 :
       (Alone(b) /\ Dispatchable(n) /\ isConnected(b, Page)) =>
         LET e == Event(options[b].captureCommand, n)
             g == dispatchEvent(Page, e)
             P1 == port[b]
             P2 == e.ports[1]
         IN /\ Recaptured(b, Page, e)
            /\ P2 # P1
            /\ State(g).port[b] = P2
            /\ State(g).closed = closed
            /\ ~State(g).closed[P1]
            /\ State(g).onmessage[P1] = b
            /\ State(g).outbox[P1] = outbox[P1]

\* a bridge with a subscriber was bound to port 1 and is bound to port 2
\* now; port 1 is open and has its handler, and both carry a confirmation
C14_Witness ==
  /\ Alone("flutterBridge")
  /\ port["flutterBridge"] = 2
  /\ ~closed[1] /\ ~closed[2]
  /\ onmessage[1] = "flutterBridge" /\ onmessage[2] = "flutterBridge"
  /\ outbox[1] = <<"portReceived">> /\ outbox[2] = <<"portReceived">>
  /\ subscribers["flutterBridge"] # << >>

\* C15: a payload that arrives on a port that is not bound to a bridge at
\* that time - a port that a later capture replaced, or one that
\* disconnect() closed - invokes no callback.
C15_OnlyActivePortFansOut ==
  \A p \in 1..transferred, data \in InboundPayloads :
    (\A b \in Constructed : port[b] # p) =>
      portMessage(Page, p, data).invoked = << >>

\* C16: when no callback throws, the callbacks that receive a payload on
\* the active channel are exactly those registered when its dispatch
\* starts, each once, also when a callback invoked in the dispatch calls
\* subscribe, an unsubscribe closure or disconnect(): one added during the
\* dispatch is not invoked, one removed during the dispatch still is.
C16_FanOutOverSnapshot ==
  \A b \in Constructed, data \in InboundPayloads :
    (Active(b) /\ \A cb \in Registered(b) : Behaviour(cb, data) # "throws") =>
      \A cb \in Callbacks :
        Deliveries(portMessage(Page, port[b], data), cb)
          = IF cb \in Registered(b) THEN 1 ELSE 0

\* the callbacks registered with b that throw when they are given data
Throwers(b, data) ==
  {i \in DOMAIN subscribers[b] : Behaviour(subscribers[b][i], data) = "throws"}

\* the first of them in the iteration order of the registry
FirstThrower(b, data) ==
  CHOOSE i \in Throwers(b, data) : \A j \in Throwers(b, data) : i <= j

\* C17: when a callback registered on the active channel throws on a
\* payload, the exception leaves the dispatch, the callbacks before it and
\* the thrower were invoked and those after it were not; the port and the
\* registry are as before, and the next payload is delivered to every
\* registered callback.
C17_ThrowAbortsFanOut ==
  \A b \in Constructed, data \in InboundPayloads :
    (Active(b) /\ Throwers(b, data) # {}) =>
      LET g == portMessage(Page, port[b], data)
          k == FirstThrower(b, data)
      IN /\ g.threw
         /\ g.invoked = [i \in 1..k |-> <<subscribers[b][i], data>>]
         /\ \A i \in (k + 1)..Len(subscribers[b]) :
              Deliveries(g, subscribers[b][i]) = 0
         /\ State(g) = State(Page)
         /\ ExactFanOut(b, portMessage(Resume(g), port[b], "x"), "x")

\* the callback that throws is registered before another one on a connected
\* bridge: a payload on which it throws reaches only the thrower
C17_Witness ==
  /\ Active("flutterBridge")
  /\ subscribers["flutterBridge"] = <<"cbCommand", "cbPlain">>
  /\ portMessage(Page, port["flutterBridge"], "throw").threw
  /\ portMessage(Page, port["flutterBridge"], "throw").invoked
       = << <<"cbCommand", "throw">> >>

\* every component mounted on b holds one subscription, the closure of its
\* last effect run, no other closure is registered, and subscribersCount is
\* the number of these components plus the callbacks subscribed directly
Balanced(b) ==
  /\ SingleMembership
  /\ \A c \in Components :
       Closures(c) \cap Registered(b)
         = IF c \in Mounted /\ hooks[c].bridge = b THEN {hooks[c].closure} ELSE {}
  /\ getConnectionStatus(b, Page).subscribersCount
       = Cardinality({c \in Mounted : hooks[c].bridge = b})
         + Cardinality(Registered(b) \cap Callbacks)

\* the step calls disconnect() of b, directly or from a callback
DisconnectStep(b) ==
  \/ Disconnect(b)
  \/ \E p \in Ports, data \in InboundPayloads :
       /\ Delivered(Page, p) /\ onmessage[p] = b
       /\ DisconnectCalled(b, data)
       /\ PortMessage(p, data)

\* C18: the subscriptions are balanced when no component is mounted, and
\* every step that is not a disconnect() - a mount, an effect re-run, an
\* unmount, a dispatch, a direct subscribe - keeps them balanced: each
\* mounted component holds exactly one subscription and subscribersCount is
\* the number of mounted components plus the direct subscribers; an unmount
\* takes the count back by one.
C18_HookSubscriptionsBalanced ==
  /\ Balanced("flutterBridge")
  /\ [][\A b \in Constructed :
          \/ /\ Balanced(b)'
             /\ \A c \in Mounted \ Mounted' :
                  getConnectionStatus(b, Page)'.subscribersCount
                    = getConnectionStatus(b, Page).subscribersCount - 1
          \/ ~Balanced(b)
          \/ DisconnectStep(b)]_vars

\* two components are mounted, the effect of A has run twice, and one
\* callback is subscribed directly: three subscribers
C18_Witness ==
  /\ Mounted = {"A", "B"}
  /\ effects["A"] = 2
  /\ hooks["A"].closure = ClosureNames["A"][2]
  /\ "cbPlain" \in Registered("flutterBridge")
  /\ Balanced("flutterBridge")
  /\ getConnectionStatus("flutterBridge", Page).subscribersCount = 3

\* C19: while a component is mounted, every payload that its bridge
\* dispatches invokes the closure of the component once, which sets
\* lastMessage to the payload and passes the payload to onMessage; also
\* after captures, disconnect() and captures that follow it.
C19_MountedHookReceivesEveryPayload ==
  \A c \in Mounted, data \in {"x", "y"} :
    Active(hooks[c].bridge) =>
      LET b == hooks[c].bridge
          g == portMessage(Page, port[b], data)
      IN /\ Deliveries(g, hooks[c].closure) = 1
         /\ Notify(hooks, g.invoked)[c].lastMessage = data
         /\ hooks[c].onMessage # "none" =>
              onMessageCalls(Notify(hooks, g.invoked)[c], data) = <<data>>

\* the step dispatches a payload that reaches the closure of component c
PayloadArrives(c) ==
  \E p \in Ports, data \in InboundPayloads :
    /\ Delivered(Page, p)
    /\ Deliveries(portMessage(Page, p, data), hooks[c].closure) > 0
    /\ PortMessage(p, data)

\* component c, in the variant with the clear timer, shows a payload
ShowsMessage(c) ==
  hooks[c].mounted /\ hooks[c].timer /\ hooks[c].lastMessage # Null

\* C20: in the variant with the clear timer, whatever onMessage is, a
\* component has at most one clear timer set and none when it is not
\* mounted, and if payloads stop arriving then a component that shows a
\* payload comes to show null, or unmounts.
C20_LastMessageEventuallyCleared ==
  /\ [](\A c \in Components :
          hooks[c].pending <= 1 /\ (~hooks[c].mounted => hooks[c].pending = 0))
  /\ \A c \in Components :
       (<>[][~PayloadArrives(c)]_vars) =>
         (ShowsMessage(c) ~> (~hooks[c].mounted \/ hooks[c].lastMessage = Null))

=============================================================================
